---- MODULE Spec2Model ----
(***************************************************************************)
(* ytmpd: the stream resolver (src/ytmpd/stream_resolver.py), the track    *)
(* store (src/ytmpd/track_store.py) and the redirect proxy                 *)
(* (src/ytmpd/icy_proxy.py).                                               *)
(*                                                                         *)
(* The proxy runs on one asyncio event loop: a handler runs atomically     *)
(* from one real suspension point to the next.  An uncontended             *)
(* asyncio.Lock never suspends, and _connection_lock is only held across   *)
(* code without an await, so the only suspension point of                  *)
(* _handle_proxy_request is the await of run_in_executor.  The resolver    *)
(* runs on executor threads: every access to the shared cache dict is a    *)
(* step of its own.                                                        *)
(***************************************************************************)
EXTENDS Integers, Sequences, FiniteSets, TLC

VARIABLES
    now,              \* the wall clock (time.time(), datetime.now()), in hours
    store,            \* TrackStore: the rows of table tracks, by video_id
    cache,            \* StreamResolver._cache, a dict in insertion order
    snapshot,         \* the resolver's cache file
    stream_resolver,  \* ICYProxyServer.stream_resolver is set (not None)
    cache_file,       \* StreamResolver._cache_file is set (not None)
    count,            \* ICYProxyServer._active_connections
    req,              \* the /proxy requests, each at its suspension point
    call,             \* the resolve_video_id calls, each at its next step
    hitValid,         \* history: the call's entry has been valid since it began
    capacity,         \* history: a 503 was sent, then a request in flight ended
    batch,            \* the resolve_batch call: its futures and its results
    health,           \* the /health request
    origin,           \* history: where each row's stream URL came from
    stats,            \* the call of get_cache_stats
    loaded            \* history: how the last _load_cache ended

vars == <<now, store, cache, snapshot, stream_resolver, cache_file, count, req,
          call, hitValid, capacity, batch, health, origin, stats, loaded>>

----------------------------------------------------------------------------
\* Bounds of the model.

\* ICYProxyServer(max_concurrent_streams=...), default MAX_CONCURRENT_STREAMS.
MaxConcurrentStreams == 1
\* The direct callers of resolve_video_id of one run (SpecResolver), each
\* calling once.
NumCallers == 2
\* The clock stops after this many ticks.
MaxTicks == 2
\* resolve_batch: the cap on the executor's threads (10 in the code), and the
\* longest list passed to it.
MaxWorkers == 1
MaxBatchLen == 2

\* The /proxy handlers that run at the same time: one more than the proxy
\* admits.  Handler r resolves on call slot r.
NumReq == MaxConcurrentStreams + 1

\* Program constants.
URL_EXPIRY_HOURS == 5
cache_hours == 5
VideoIdLength == 11

\* The clock is read once per expiry period: ages are 0, the TTL itself (not
\* yet expired) and more than the TTL.
TickHours == URL_EXPIRY_HOURS
MaxTime == MaxTicks * TickHours

----------------------------------------------------------------------------
\* Identifiers are strings, modelled as sequences of characters.

IdChars == {"a", "b", "Z", "0", "_", "-"}

IdA == [i \in 1..VideoIdLength |-> "a"]
IdB == [i \in 1..VideoIdLength |-> IF i = 1 THEN "b" ELSE "a"]
IdShort == [i \in 1..(VideoIdLength - 1) |-> "a"]
IdBang == [i \in 1..VideoIdLength |-> IF i = 2 THEN "!" ELSE "a"]
\* /proxy/aaaaaaaaaaa%0A: the path segment is unquoted before it reaches the
\* handler.
IdNewline == IdA \o <<"\n">>

\* The identifiers a client sends to /proxy/{video_id}.
RequestIds == {IdA, IdB, IdShort, IdBang, IdNewline}
\* The identifiers callers pass to resolve_video_id directly.
ResolveIds == {IdA, IdB}
\* The rows the store holds.
TrackIds == {IdA}

\* The URLs the external primitive hands out.
Urls == {"A", "B"}
None == "None"

Requests == 1..NumReq
DirectCallers == 1..NumCallers
\* Future i of resolve_batch runs on call slot i.
BatchSlots == 1..MaxBatchLen
Callers == Requests \cup DirectCallers \cup BatchSlots

\* The lists passed to resolve_batch.
BatchInputs == UNION {[1..n -> ResolveIds] : n \in 0..MaxBatchLen}

\* VIDEO_ID_PATTERN.match(video_id): exactly VideoIdLength characters of the
\* class; Python's $ also matches before one trailing newline.
VideoIdMatches(v) ==
    LET body == IF Len(v) = VideoIdLength + 1 /\ v[Len(v)] = "\n"
                THEN SubSeq(v, 1, VideoIdLength) ELSE v
    IN  /\ Len(body) = VideoIdLength
        /\ \A i \in 1..Len(body) : body[i] \in IdChars

----------------------------------------------------------------------------
\* TrackStore.

\* get_track: the row, or None.
NoTrack == [stream_url |-> None, updated_at |-> 0, title |-> None, artist |-> None]

\* A variant of get_track that makes up a row for a video_id without one.
get_track_AnyRow(st, v) ==
    IF v \in DOMAIN st THEN st[v] ELSE [NoTrack EXCEPT !.title = "unknown"]

get_track(st, v) == IF v \in DOMAIN st THEN st[v] ELSE NoTrack

\* A variant of update_stream_url that writes a whole row, as add_track does.
update_stream_url_Upsert(st, v, url, t) ==
    [x \in DOMAIN st \cup {v} |->
        IF x = v
        THEN [stream_url |-> url, updated_at |-> t, title |-> None, artist |-> None]
        ELSE st[x]]

\* A variant of update_stream_url that leaves updated_at alone.
update_stream_url_KeepTime(st, v, url, t) ==
    IF v \in DOMAIN st
    THEN [st EXCEPT ![v].stream_url = url]
    ELSE st

\* update_stream_url: UPDATE ... SET stream_url, updated_at WHERE video_id;
\* no row is touched when the video_id has none.
update_stream_url(st, v, url, t) ==
    IF v \in DOMAIN st
    THEN [st EXCEPT ![v].stream_url = url, ![v].updated_at = t]
    ELSE st

\* add_track: INSERT ... ON CONFLICT(video_id) DO UPDATE SET stream_url,
\* artist, title, updated_at: the row is written whole, at the present instant,
\* whether or not the video_id has one.
add_track(st, v, url, title, artist, t) ==
    [x \in DOMAIN st \cup {v} |->
        IF x = v
        THEN [stream_url |-> url, updated_at |-> t, title |-> title, artist |-> artist]
        ELSE st[x]]

----------------------------------------------------------------------------
\* StreamResolver._cache: a dict, kept here as the sequence of its items in
\* insertion order.

CacheIndex(c, v) ==
    IF \E i \in 1..Len(c) : c[i].video_id = v
    THEN CHOOSE i \in 1..Len(c) : c[i].video_id = v
    ELSE 0

CacheHas(c, v) == CacheIndex(c, v) # 0

CacheGet(c, v) == c[CacheIndex(c, v)]

\* A variant of the assignment that adds an item even when the key is there.
CachePut_Append(c, v, e) == Append(c, e)

\* self._cache[video_id] = CachedURL(...): an existing key keeps its place.
CachePut(c, v, e) ==
    IF CacheHas(c, v)
    THEN [c EXCEPT ![CacheIndex(c, v)] = e]
    ELSE Append(c, e)

\* del self._cache[video_id]
CacheDel(c, v) ==
    LET k == CacheIndex(c, v)
    IN  [i \in 1..(Len(c) - 1) |-> IF i < k THEN c[i] ELSE c[i + 1]]

\* A variant of the comparison that expires an entry at the TTL itself.
CacheExpired_AtTtl(e, t) == (t - e.cached_at) >= cache_hours

\* The comparison of _is_cache_valid and of _load_cache: age > max_age.
CacheExpired(e, t) == (t - e.cached_at) > cache_hours

\* A variant of _is_url_expired that takes every URL for expired.
is_url_expired_Always(updated_at, t) == (t - updated_at) >= 0

\* A variant of _is_url_expired that expires a URL at the TTL itself.
is_url_expired_AtTtl(updated_at, t) == (t - updated_at) >= URL_EXPIRY_HOURS

\* The comparison of _is_url_expired: age_hours > expiry_hours.
is_url_expired(updated_at, t) == (t - updated_at) > URL_EXPIRY_HOURS


CacheValid(c, t, v) == CacheHas(c, v) /\ ~CacheExpired(CacheGet(c, v), t)

\* What one run of ydl.extract_info comes to, as _extract_url tells the
\* cases apart: info with a url; no info or no url; DownloadError (private,
\* unavailable, region locked, removed); ExtractorError; another exception
\* whose text names the network or a timeout; any other exception.
FailureKinds == {"no_info", "DownloadError", "ExtractorError", "network", "unexpected"}

ExtractOutcomes ==
    {[kind |-> "url", url |-> u] : u \in Urls} \cup
    {[kind |-> k, url |-> None] : k \in FailureKinds}

\* A variant of _extract_url that tries again after any failure.
extract_url_RetryAlways(o1, o2) ==
    IF o1.kind = "url" THEN [url |-> o1.url, attempts |-> 1, fail |-> None]
    ELSE [url |-> o2.url, attempts |-> 2, fail |-> o1.kind]

\* _extract_url: the first run of extract_info (o1) and, only after an
\* exception of the network kind, time.sleep(1) and one more run (o2).
\* url: what it returns; attempts: the runs of extract_info; fail: the kind
\* of the first run's failure.
extract_url(o1, o2) ==
    IF o1.kind = "url" THEN [url |-> o1.url, attempts |-> 1, fail |-> None]
    ELSE IF o1.kind = "network"
         THEN [url |-> o2.url, attempts |-> 2, fail |-> o1.kind]
         ELSE [url |-> None, attempts |-> 1, fail |-> o1.kind]

\* pc: the next step; url: the local of resolve_video_id; ret: what the call
\* returned.  History: found (what _is_cache_valid met: "absent", "expired",
\* "valid"), age (the age in hours _is_cache_valid computed for the entry),
\* extracts (the calls of _extract_url), attempts (the runs of extract_info),
\* fail (the kind of the first run's failure), cached_at (the cached_at of
\* the entry the call read its URL from, or stored), saved (how the call's
\* _save_cache ended: "written" or "error").
IdleCall ==
    [pc |-> "idle", video_id |-> <<>>, url |-> None, ret |-> None, found |-> None,
     age |-> 0, extracts |-> 0, attempts |-> 0, fail |-> None, cached_at |-> 0,
     saved |-> None]

\* A call of resolve_video_id(v) about to take its first step.
NewCall(v) == [IdleCall EXCEPT !.pc = "check", !.video_id = v]

\* The call returns x (a URL or None), or ends by raising ("KeyError").
Return(k, x) == [k EXCEPT !.pc = "done", !.ret = x]

\* resolve_batch.  pc: "poll" in the while loop, "closing" at the end of the
\* with block, "save" before its _save_cache.  fut[i]: the future of
\* video_ids[i]: "pending" (queued), "running" (a thread runs
\* resolve_video_id on call slot i, or has finished it there), "cancelled",
\* and, once collected by the loop, "ok" (with the URL), "failed" (it
\* returned None) or "raised".  results: the dict being built.  History:
\* cancelled (should_stop() was found true), saved (how the _save_cache of
\* resolve_batch ended).
IdleBatch ==
    [pc |-> "idle", video_ids |-> <<>>, fut |-> <<>>, results |-> <<>>, cancelled |-> FALSE,
     saved |-> None]

\* A variant in which the handler calls resolve_video_id on the thread of the
\* event loop: while a request waits for its resolution no handler runs.
Quiet_LoopHeld ==
    /\ \A r \in Requests : req[r].pc \notin {"done", "await"}
    /\ batch.pc # "done"
    /\ health.pc # "done"
    /\ stats.pc # "done"

\* A handler or a direct call that has just ended keeps its locals for one
\* state, the one in which its result is observed; it is closed before
\* anything else runs.
Quiet ==
    /\ \A r \in Requests : req[r].pc # "done"
    /\ batch.pc # "done"
    /\ health.pc # "done"
    /\ stats.pc # "done"
    /\ \A c \in Callers :
          call[c].pc = "done" =>
              \/ c \in Requests /\ req[c].pc = "await"
              \/ c \in DOMAIN batch.fut /\ batch.fut[c].st = "running"

\* history: hitValid[c] holds while call c has found a valid entry for its
\* identifier in every state since it began.
HistoryStep ==
    hitValid' =
        [c \in Callers |->
            IF call'[c].pc \in {"idle", "closed"} THEN FALSE
            ELSE IF call[c].pc = "done" THEN hitValid[c]
            ELSE /\ (call[c].pc = "idle" \/ hitValid[c])
                 /\ CacheValid(cache', now', call'[c].video_id)]

ResolverFrame ==
    UNCHANGED <<now, store, stream_resolver, cache_file, count, req, capacity, batch,
                health, origin, stats, loaded>>

\* A caller outside the proxy calls resolve_video_id, once; the callers are
\* numbered as they arrive.
ResolveBegin(c, v) ==
    /\ Quiet
    /\ call[c].pc = "idle"
    /\ \A d \in DirectCallers : d < c => call[d].pc # "idle"
    /\ call' = [call EXCEPT ![c] = NewCall(v)]
    /\ UNCHANGED <<cache, snapshot>>
    /\ ResolverFrame
    /\ HistoryStep

\* The direct caller has its result and is gone.
ResolveEnd(c) ==
    /\ call[c].pc = "done"
    /\ ~(c \in Requests /\ req[c].pc = "await")
    /\ call' = [call EXCEPT ![c] = [IdleCall EXCEPT !.pc = "closed"]]
    /\ UNCHANGED <<cache, snapshot>>
    /\ ResolverFrame
    /\ HistoryStep

\* A variant of the membership test that never finds the key.
IsCacheValidMember_NoCache(c) ==
    /\ Quiet
    /\ call[c].pc = "check"
    /\ call' = [call EXCEPT ![c] = [@ EXCEPT !.pc = "extract", !.found = "absent"]]
    /\ UNCHANGED <<cache, snapshot>>
    /\ ResolverFrame
    /\ HistoryStep

\* _is_cache_valid: if video_id not in self._cache: return False
IsCacheValidMember(c) ==
    /\ Quiet
    /\ call[c].pc = "check"
    /\ call' = [call EXCEPT ![c] =
                  IF CacheHas(cache, call[c].video_id)
                  THEN [@ EXCEPT !.pc = "valid_read"]
                  ELSE [@ EXCEPT !.pc = "extract", !.found = "absent"]]
    /\ UNCHANGED <<cache, snapshot>>
    /\ ResolverFrame
    /\ HistoryStep

\* _is_cache_valid: cached = self._cache[video_id]; age > max_age
IsCacheValidAge(c) ==
    /\ Quiet
    /\ call[c].pc = "valid_read"
    /\ call' = [call EXCEPT ![c] =
                  IF ~CacheHas(cache, call[c].video_id) THEN Return(@, "KeyError")
                  ELSE IF CacheExpired(CacheGet(cache, call[c].video_id), now)
                       THEN [@ EXCEPT !.pc = "valid_del", !.found = "expired",
                                      !.age = now - CacheGet(cache, call[c].video_id).cached_at]
                       ELSE [@ EXCEPT !.pc = "hit_read", !.found = "valid",
                                      !.age = now - CacheGet(cache, call[c].video_id).cached_at]]
    /\ UNCHANGED <<cache, snapshot>>
    /\ ResolverFrame
    /\ HistoryStep

\* _is_cache_valid: del self._cache[video_id]; return False
IsCacheValidDel(c) ==
    /\ Quiet
    /\ call[c].pc = "valid_del"
    /\ IF CacheHas(cache, call[c].video_id)
       THEN /\ cache' = CacheDel(cache, call[c].video_id)
            /\ call' = [call EXCEPT ![c].pc = "extract"]
       ELSE /\ cache' = cache
            /\ call' = [call EXCEPT ![c] = Return(@, "KeyError")]
    /\ UNCHANGED snapshot
    /\ ResolverFrame
    /\ HistoryStep

\* resolve_video_id: cached = self._cache[video_id]; return cached.url
CacheHit(c) ==
    /\ Quiet
    /\ call[c].pc = "hit_read"
    /\ call' = [call EXCEPT ![c] =
                  IF CacheHas(cache, call[c].video_id)
                  THEN Return([@ EXCEPT !.cached_at =
                                           CacheGet(cache, call[c].video_id).cached_at],
                              CacheGet(cache, call[c].video_id).url)
                  ELSE Return(@, "KeyError")]
    /\ UNCHANGED <<cache, snapshot>>
    /\ ResolverFrame
    /\ HistoryStep

\* A variant of the call of _extract_url that caches a failure.
ExtractUrl_NegativeCache(c, o1, o2) ==
    /\ Quiet
    /\ call[c].pc = "extract"
    /\ call' = [call EXCEPT ![c] =
                  LET x == extract_url(o1, o2)
                      k == [@ EXCEPT !.extracts = @ + 1, !.attempts = @ + x.attempts,
                                     !.fail = x.fail, !.url = x.url]
                  IN  IF x.url # None THEN [k EXCEPT !.pc = "store"] ELSE Return(k, None)]
    /\ cache' = IF extract_url(o1, o2).url # None THEN cache
                ELSE CachePut(cache, call[c].video_id,
                        [video_id |-> call[c].video_id, url |-> None, cached_at |-> now])
    /\ UNCHANGED snapshot
    /\ ResolverFrame
    /\ HistoryStep

\* resolve_video_id: url = self._extract_url(video_id); if url: ... return url
ExtractUrl(c, o1, o2) ==
    /\ Quiet
    /\ call[c].pc = "extract"
    /\ call' = [call EXCEPT ![c] =
                  LET x == extract_url(o1, o2)
                      k == [@ EXCEPT !.extracts = @ + 1, !.attempts = @ + x.attempts,
                                     !.fail = x.fail, !.url = x.url]
                  IN  IF x.url # None THEN [k EXCEPT !.pc = "store"] ELSE Return(k, None)]
    /\ UNCHANGED <<cache, snapshot>>
    /\ ResolverFrame
    /\ HistoryStep

\* A variant of the assignment that dates the entry one expiry period ahead.
CacheStore_Ahead(c) ==
    /\ Quiet
    /\ call[c].pc = "store"
    /\ cache' = CachePut(cache, call[c].video_id,
                   [video_id |-> call[c].video_id, url |-> call[c].url,
                    cached_at |-> now + TickHours])
    /\ call' = [call EXCEPT ![c] =
                  IF cache_file THEN [@ EXCEPT !.pc = "save"] ELSE Return(@, @.url)]
    /\ UNCHANGED snapshot
    /\ ResolverFrame
    /\ HistoryStep

\* resolve_video_id: self._cache[video_id] = CachedURL(url, datetime.now(), video_id)
CacheStore(c) ==
    /\ Quiet
    /\ call[c].pc = "store"
    /\ cache' = CachePut(cache, call[c].video_id,
                   [video_id |-> call[c].video_id, url |-> call[c].url, cached_at |-> now])
    /\ call' = [call EXCEPT ![c] =
                  IF cache_file THEN [@ EXCEPT !.pc = "save", !.cached_at = now]
                  ELSE Return([@ EXCEPT !.cached_at = now], @.url)]
    /\ UNCHANGED snapshot
    /\ ResolverFrame
    /\ HistoryStep

\* The first item of the dict, in iteration order, that _is_cache_valid finds
\* expired (0: none).
FirstExpired(c, t) ==
    IF \E i \in 1..Len(c) : CacheExpired(c[i], t)
    THEN CHOOSE i \in 1..Len(c) :
            /\ CacheExpired(c[i], t)
            /\ \A j \in 1..(i - 1) : ~CacheExpired(c[j], t)
    ELSE 0

\* A variant of the text that keeps the date and drops the time of day.
isoformat_Date(t) == [iso |-> (t \div 24) * 24]

\* datetime.isoformat() and datetime.fromisoformat(): the text of an instant,
\* and the instant of a text; the text keeps the instant to the microsecond.
isoformat(t) == [iso |-> t]

fromisoformat(x) == x.iso

\* What json.dump writes: url, the text of cached_at, and video_id of each
\* item.
SnapshotOf(c) ==
    [i \in 1..Len(c) |->
        [video_id |-> c[i].video_id, url |-> c[i].url, cached_at |-> isoformat(c[i].cached_at)]]

\* _save_cache, then return url.  The loop runs over self._cache.items() and
\* _is_cache_valid deletes the first expired item it meets: the dict has
\* changed size, the next step of the loop raises RuntimeError, the except
\* clause logs it and the file is not written.
SaveCache(c) ==
    /\ Quiet
    /\ call[c].pc = "save"
    /\ LET k == FirstExpired(cache, now)
       IN  IF k = 0
           THEN /\ snapshot' = [written |-> TRUE, data |-> SnapshotOf(cache)]
                /\ cache' = cache
           ELSE /\ snapshot' = snapshot
                /\ cache' = CacheDel(cache, cache[k].video_id)
    /\ call' = [call EXCEPT ![c] =
                  Return([@ EXCEPT !.saved = IF FirstExpired(cache, now) = 0
                                             THEN "written" ELSE "error"],
                         @.url)]
    /\ ResolverFrame
    /\ HistoryStep

\* A variant in which the exception of the file system leaves _save_cache
\* and resolve_video_id.
SaveCacheFails_Raises(c, at) ==
    /\ Quiet
    /\ call[c].pc = "save"
    /\ snapshot' = snapshot
    /\ cache' = cache
    /\ call' = [call EXCEPT ![c] = Return([@ EXCEPT !.saved = "error"], "OSError")]
    /\ ResolverFrame
    /\ HistoryStep

\* _save_cache, then return url, when the file system fails: mkdir raises
\* before the loop over the dict, or open raises after it; the except clause
\* logs the exception and the file is left as it was.
SaveCacheFails(c, at) ==
    /\ Quiet
    /\ call[c].pc = "save"
    /\ snapshot' = snapshot
    /\ cache' = IF at = "mkdir" \/ FirstExpired(cache, now) = 0 THEN cache
                ELSE CacheDel(cache, cache[FirstExpired(cache, now)].video_id)
    /\ call' = [call EXCEPT ![c] = Return([@ EXCEPT !.saved = "error"], @.url)]
    /\ ResolverFrame
    /\ HistoryStep

\* The clock.
Tick ==
    /\ Quiet
    /\ now < MaxTime
    /\ now' = now + TickHours
    /\ UNCHANGED <<store, cache, snapshot, stream_resolver, cache_file, count, req, call,
                   capacity, batch, health, origin, stats, loaded>>
    /\ HistoryStep

ResolverStep ==
    \/ \E c \in Callers : IsCacheValidMember(c)
    \/ \E c \in Callers : IsCacheValidAge(c)
    \/ \E c \in Callers : IsCacheValidDel(c)
    \/ \E c \in Callers : CacheHit(c)
    \/ \E c \in Callers, o1 \in ExtractOutcomes :
          \E o2 \in (IF o1.kind = "network" THEN ExtractOutcomes ELSE {o1}) :
             ExtractUrl(c, o1, o2)
    \/ \E c \in Callers : CacheStore(c)
    \/ \E c \in Callers : SaveCache(c)

----------------------------------------------------------------------------
\* StreamResolver.resolve_batch.

\* max_workers = min(10, len(video_ids))
max_workers(ids) == IF Len(ids) < MaxWorkers THEN Len(ids) ELSE MaxWorkers

\* The futures whose thread is inside resolve_video_id.
Resolving(b) == {i \in DOMAIN b.fut : b.fut[i].st = "running" /\ call[i].pc # "done"}

\* The futures that are done and that the loop has not collected.
Finished(b) == {i \in DOMAIN b.fut : b.fut[i].st = "running" /\ call[i].pc = "done"}

\* ThreadPoolExecutor.shutdown(wait=True) returns: no thread runs a work item
\* and none is queued.
ExecutorIdle(b) ==
    /\ Resolving(b) = {}
    /\ \A i \in DOMAIN b.fut : b.fut[i].st # "pending"

\* A variant of the test that takes anything a worker returns for a URL.
Succeeded_Returned(x) == x # "KeyError"

\* url = future.result(); if url: results[video_id] = url
Succeeded(x) == x \in Urls

\* A variant of the loop's test that never finds the list of futures empty.
LoopDone_Never(fut) == \E i \in DOMAIN fut : fut[i].st = "none"

\* A variant of the loop's test that leaves the loop at the first failure.
LoopDone_AtFailure(fut) ==
    \/ \A i \in DOMAIN fut : fut[i].st \notin {"pending", "running"}
    \/ \E i \in DOMAIN fut : fut[i].st \in {"failed", "raised"}

\* while pending_futures: the loop ends when every future is done.
LoopDone(fut) == \A i \in DOMAIN fut : fut[i].st \notin {"pending", "running"}

\* A variant of the start of resolve_batch without the test for the empty
\* list.
BatchStart_NoEmptyTest(ids) ==
    [IdleBatch EXCEPT !.pc = "poll", !.video_ids = ids,
                      !.fut = [i \in 1..Len(ids) |-> [st |-> "pending", ret |-> None]]]

\* if not video_ids: return {}; otherwise one future per item, all queued.
BatchStart(ids) ==
    IF ids = <<>>
    THEN [IdleBatch EXCEPT !.pc = "done"]
    ELSE [IdleBatch EXCEPT !.pc = "poll", !.video_ids = ids,
                           !.fut = [i \in 1..Len(ids) |-> [st |-> "pending", ret |-> None]]]

\* What future.result() comes to in the loop.
Collected(x) ==
    [st |-> IF x \in Urls THEN "ok" ELSE IF x = None THEN "failed" ELSE "raised",
     ret |-> x]

BatchFrame ==
    UNCHANGED <<now, store, stream_resolver, cache_file, count, req, capacity, health,
                origin, stats, loaded>>

\* resolve_batch(ids) up to the while loop: the empty list returns {} at
\* once; otherwise one future per item of the list is submitted.
BatchBegin(ids) ==
    /\ Quiet
    /\ batch.pc = "idle"
    /\ \A c \in Callers : call[c].pc = "idle"
    /\ batch' = BatchStart(ids)
    /\ UNCHANGED <<cache, snapshot, call>>
    /\ BatchFrame
    /\ HistoryStep

\* A variant of the executor without the cap on its threads.
WorkerStart_NoCap(i) ==
    /\ Quiet
    /\ batch.pc \in {"poll", "closing"}
    /\ i \in DOMAIN batch.fut
    /\ batch.fut[i].st = "pending"
    /\ \A j \in 1..(i - 1) : batch.fut[j].st # "pending"
    /\ batch' = [batch EXCEPT !.fut[i].st = "running"]
    /\ call' = [call EXCEPT ![i] = NewCall(batch.video_ids[i])]
    /\ UNCHANGED <<cache, snapshot>>
    /\ BatchFrame
    /\ HistoryStep

\* A thread of the executor, of which there are at most max_workers, takes the
\* first queued work item and calls resolve_video_id.
WorkerStart(i) ==
    /\ Quiet
    /\ batch.pc \in {"poll", "closing"}
    /\ i \in DOMAIN batch.fut
    /\ batch.fut[i].st = "pending"
    /\ \A j \in 1..(i - 1) : batch.fut[j].st # "pending"
    /\ Cardinality(Resolving(batch)) < max_workers(batch.video_ids)
    /\ batch' = [batch EXCEPT !.fut[i].st = "running"]
    /\ call' = [call EXCEPT ![i] = NewCall(batch.video_ids[i])]
    /\ UNCHANGED <<cache, snapshot>>
    /\ BatchFrame
    /\ HistoryStep

\* One turn of the while loop.  stop: should_stop() is true: every future
\* that is not done is cancelled, which stops the queued ones only, and the
\* loop is left.  Otherwise wait() hands over the futures that are done (a
\* turn that times out with none changes nothing) and their results are
\* collected, in the order of a set.
BatchPoll(stop) ==
    /\ Quiet
    /\ batch.pc = "poll"
    /\ IF stop
       THEN /\ batch' = [batch EXCEPT
                           !.cancelled = TRUE,
                           !.pc = "closing",
                           !.fut = [i \in DOMAIN @ |->
                                      IF @[i].st = "pending"
                                      THEN [@[i] EXCEPT !.st = "cancelled"] ELSE @[i]]]
            /\ call' = call
       ELSE LET D == Finished(batch)
                ok == {i \in D : Succeeded(call[i].ret)}
                keys == DOMAIN batch.results \cup {batch.video_ids[i] : i \in ok}
                fut == [i \in DOMAIN batch.fut |->
                          IF i \in D THEN Collected(call[i].ret) ELSE batch.fut[i]]
            IN  /\ D # {}
                /\ \E res \in [keys -> Urls \cup {None}] :
                      /\ \A v \in keys :
                            IF \E i \in ok : batch.video_ids[i] = v
                            THEN \E i \in ok : batch.video_ids[i] = v /\ res[v] = call[i].ret
                            ELSE res[v] = batch.results[v]
                      /\ batch' = [batch EXCEPT
                                     !.results = res,
                                     !.fut = fut,
                                     !.pc = IF LoopDone(fut) THEN "closing" ELSE "poll"]
                /\ call' = [c \in Callers |-> IF c \in D THEN IdleCall ELSE call[c]]
    /\ UNCHANGED <<cache, snapshot>>
    /\ BatchFrame
    /\ HistoryStep

\* A variant of the end of the with block that puts the URLs of the workers
\* it waited for into the dict.
BatchClose_Collects ==
    /\ Quiet
    /\ batch.pc = "closing"
    /\ ExecutorIdle(batch)
    /\ LET late == {i \in DOMAIN batch.fut :
                       batch.fut[i].st = "running" /\ call[i].ret \in Urls}
           keys == DOMAIN batch.results \cup {batch.video_ids[i] : i \in late}
       IN  batch' = [batch EXCEPT
                       !.pc = IF cache_file /\ keys # {} THEN "save" ELSE "done",
                       !.results = [v \in keys |->
                                      IF \E i \in late : batch.video_ids[i] = v
                                      THEN call[CHOOSE i \in late : batch.video_ids[i] = v].ret
                                      ELSE batch.results[v]],
                       !.fut = [i \in DOMAIN @ |->
                                  IF @[i].st = "running"
                                  THEN [st |-> "dropped", ret |-> call[i].ret] ELSE @[i]]]
    /\ call' = [c \in Callers |-> IF c \in Finished(batch) THEN IdleCall ELSE call[c]]
    /\ UNCHANGED <<cache, snapshot>>
    /\ BatchFrame
    /\ HistoryStep

\* The end of the with block: ThreadPoolExecutor.__exit__ is
\* shutdown(wait=True), which returns when the threads have finished what they
\* were running.  Results that were not collected are dropped.
BatchClose ==
    /\ Quiet
    /\ batch.pc = "closing"
    /\ ExecutorIdle(batch)
    /\ batch' = [batch EXCEPT
                   !.pc = IF cache_file /\ DOMAIN batch.results # {} THEN "save" ELSE "done",
                   !.fut = [i \in DOMAIN @ |->
                              IF @[i].st = "running"
                              THEN [st |-> "dropped", ret |-> call[i].ret] ELSE @[i]]]
    /\ call' = [c \in Callers |-> IF c \in Finished(batch) THEN IdleCall ELSE call[c]]
    /\ UNCHANGED <<cache, snapshot>>
    /\ BatchFrame
    /\ HistoryStep

\* if self._cache_file and results: self._save_cache(); return results
BatchSave ==
    /\ Quiet
    /\ batch.pc = "save"
    /\ LET k == FirstExpired(cache, now)
       IN  IF k = 0
           THEN /\ snapshot' = [written |-> TRUE, data |-> SnapshotOf(cache)]
                /\ cache' = cache
           ELSE /\ snapshot' = snapshot
                /\ cache' = CacheDel(cache, cache[k].video_id)
    /\ batch' = [batch EXCEPT !.pc = "done",
                              !.saved = IF FirstExpired(cache, now) = 0
                                        THEN "written" ELSE "error"]
    /\ UNCHANGED call
    /\ BatchFrame
    /\ HistoryStep

\* The same when the file system fails, at mkdir or at open.
BatchSaveFails(at) ==
    /\ Quiet
    /\ batch.pc = "save"
    /\ snapshot' = snapshot
    /\ cache' = IF at = "mkdir" \/ FirstExpired(cache, now) = 0 THEN cache
                ELSE CacheDel(cache, cache[FirstExpired(cache, now)].video_id)
    /\ batch' = [batch EXCEPT !.pc = "done", !.saved = "error"]
    /\ UNCHANGED call
    /\ BatchFrame
    /\ HistoryStep

\* The caller has the dict and is gone.
BatchEnd ==
    /\ batch.pc = "done"
    /\ batch' = [IdleBatch EXCEPT !.pc = "closed"]
    /\ UNCHANGED <<cache, snapshot, call>>
    /\ BatchFrame
    /\ HistoryStep

----------------------------------------------------------------------------
\* ICYProxyServer._handle_proxy_request.

\* Of the row get_track returned the handler uses stream_url again (track_url
\* keeps what it read; stream_url is the local the refresh overwrites).
\* History: logged (video_id was written to the log), looked (get_track was
\* called), raised (a call of the store raised), after_free (the request is the
\* first well-formed one to arrive after a 503 and the end of a request then
\* in flight), age (the age in hours of the row when get_track returned it),
\* store0 and count0 (the store and the counter when the part of the handler
\* that sent the response began).
IdleRequest ==
    [pc |-> "idle", video_id |-> <<>>, track_url |-> None, stream_url |-> None,
     branch |-> None, status |-> 0, location |-> None, logged |-> FALSE, looked |-> FALSE,
     raised |-> FALSE, after_free |-> FALSE, age |-> 0, store0 |-> <<>>, count0 |-> 0]

\* Variants of the admission test: one that lets a request in at the limit,
\* one that turns requests away one short of it.
ConnectionLimitExceeded(n) == n > MaxConcurrentStreams

ConnectionLimitNear(n) == n + 1 >= MaxConcurrentStreams

\* if self._active_connections >= self.max_concurrent_streams
ConnectionLimitReached(n) == n >= MaxConcurrentStreams

\* self._active_connections += 1
Accept(n) == n + 1

\* Variants of the finally clause: one without the decrement, one that does
\* not decrement a full counter.
Release_Missing(n) == n

Release_Stuck(n) == IF n >= MaxConcurrentStreams THEN n ELSE n - 1

\* finally: self._active_connections -= 1
Release(n) == n - 1

\* The handler ends with this status (and Location).
Respond(q, status, loc) ==
    [q EXCEPT !.pc = "done", !.status = status, !.location = loc,
              !.store0 = store, !.count0 = count]

\* A variant of the last except clause that answers as for a failed
\* resolution.
InternalError_BadGateway(q) == Respond([q EXCEPT !.raised = TRUE], 502, None)

\* except Exception: raise web.HTTPInternalServerError
InternalError(q) == Respond([q EXCEPT !.raised = TRUE], 500, None)

\* Variants of the except clause: one that never falls back to the old URL,
\* one that always redirects.
RefreshFailed_NoFallback(q) == Respond(q, 502, None)

RefreshFailed_AlwaysRedirect(q) == Respond(q, 307, q.stream_url)

\* except URLRefreshError: 502 when the URL was never resolved, the old URL
\* when it had expired.
RefreshFailed(q) ==
    IF q.branch = "null"
    THEN Respond(q, 502, None)
    ELSE Respond(q, 307, q.stream_url)

ProxyFrame ==
    UNCHANGED <<now, cache, snapshot, stream_resolver, cache_file, batch, health, stats,
                loaded>>

\* The handler from its start to its first suspension (the await of
\* run_in_executor) or to its end.  err: get_track raises.  Handlers take the
\* lowest free slot.  Every path writes video_id to the log: the warning of the
\* 400, the warning of the 503, the debug line of an accepted connection.
HandleProxyRequest(r, v, err) ==
    /\ Quiet
    /\ req[r].pc = "idle"
    /\ \A p \in Requests : p < r => req[p].pc # "idle"
    /\ LET q0 == [req[r] EXCEPT !.video_id = v, !.logged = TRUE]
           qa == [q0 EXCEPT !.after_free = (capacity = "freed")]
           track == get_track(store, v)
           q1 == [qa EXCEPT !.looked = TRUE]
           q2 == [q1 EXCEPT !.track_url = track.stream_url, !.stream_url = track.stream_url,
                           !.age = now - track.updated_at]
           branch == IF track.stream_url = None THEN "null"
                     ELSE IF is_url_expired(track.updated_at, now) THEN "expired"
                     ELSE "fresh"
           q3 == [q2 EXCEPT !.branch = branch]
       IN  IF ~VideoIdMatches(v)
           THEN /\ req' = [req EXCEPT ![r] = Respond(q0, 400, None)]
                /\ UNCHANGED <<count, call, capacity>>
           ELSE /\ capacity' = IF ConnectionLimitReached(count) THEN "rejected" ELSE "none"
                /\ IF ConnectionLimitReached(count)
                   THEN /\ req' = [req EXCEPT ![r] = Respond(qa, 503, None)]
                        /\ UNCHANGED <<count, call>>
                   ELSE IF err
                   THEN /\ req' = [req EXCEPT ![r] = InternalError(q1)]
                        /\ count' = Release(Accept(count))
                        /\ UNCHANGED call
                   ELSE IF track = NoTrack
                   THEN /\ req' = [req EXCEPT ![r] = Respond(q1, 404, None)]
                        /\ count' = Release(Accept(count))
                        /\ UNCHANGED call
                   ELSE IF branch = "fresh"
                   THEN /\ req' = [req EXCEPT ![r] = Respond(q3, 307, q3.stream_url)]
                        /\ count' = Release(Accept(count))
                        /\ UNCHANGED call
                   ELSE IF ~stream_resolver
                   THEN /\ req' = [req EXCEPT ![r] = RefreshFailed(q3)]
                        /\ count' = Release(Accept(count))
                        /\ UNCHANGED call
                   ELSE /\ req' = [req EXCEPT ![r] = [q3 EXCEPT !.pc = "await"]]
                        /\ count' = Accept(count)
                        /\ call' = [call EXCEPT ![r] = NewCall(v)]
    /\ UNCHANGED <<store, origin>>
    /\ ProxyFrame
    /\ HistoryStep

\* History of a row the handler writes: by, the writer; url and written, the
\* URL and the instant of the write; at, the instant the external primitive
\* returned the URL: the cached_at of the resolver's entry when call k
\* returned it from the cache, and the instant t of the write when call k ran
\* the primitive itself (the running time of the request is not counted).
Resolved(k, t) ==
    [at |-> IF k.extracts > 0 THEN t ELSE k.cached_at, by |-> "proxy", url |-> k.ret,
     written |-> t]

\* The handler from the return of run_in_executor to its end.  err:
\* update_stream_url raises.
ResumeProxyRequest(r, err) ==
    /\ Quiet
    /\ req[r].pc = "await"
    /\ call[r].pc = "done"
    /\ LET q == req[r]
           new_url == call[r].ret
       IN  IF new_url \in Urls
           THEN IF err
                THEN /\ req' = [req EXCEPT ![r] =
                                  InternalError([q EXCEPT !.stream_url = new_url])]
                     /\ store' = store
                ELSE /\ req' = [req EXCEPT ![r] =
                                  Respond([q EXCEPT !.stream_url = new_url], 307, new_url)]
                     /\ store' = update_stream_url(store, q.video_id, new_url, now)
           ELSE /\ req' = [req EXCEPT ![r] = RefreshFailed(q)]
                /\ store' = store
    /\ origin' = IF call[r].ret \in Urls /\ ~err /\ req[r].video_id \in DOMAIN store
                 THEN [origin EXCEPT ![req[r].video_id] = Resolved(call[r], now)]
                 ELSE origin
    /\ count' = Release(count)
    /\ capacity' = IF capacity = "rejected" THEN "freed" ELSE capacity
    /\ UNCHANGED call
    /\ ProxyFrame
    /\ HistoryStep

\* The response has left: the handler's locals, and its resolver call's, are
\* gone.
CloseRequest(r) ==
    /\ req[r].pc = "done"
    /\ req' = [req EXCEPT ![r] = IdleRequest]
    /\ call' = [call EXCEPT ![r] = IdleCall]
    /\ UNCHANGED <<store, count, capacity, origin>>
    /\ ProxyFrame
    /\ HistoryStep

----------------------------------------------------------------------------
\* StreamResolver.get_cache_stats.

\* History: before (the cache when the call began).
IdleStats ==
    [pc |-> "idle", cache_size |-> 0, expired_count |-> 0, valid_count |-> 0,
     before |-> <<>>]

\* sum(1 for video_id in list(self._cache.keys()) if not
\* self._is_cache_valid(video_id)): keys is the list taken first, c the dict
\* as the calls of _is_cache_valid leave it, n the sum so far.
RECURSIVE CountExpired(_, _, _, _)
CountExpired(keys, c, t, n) ==
    IF keys = <<>> THEN [cache |-> c, expired |-> n]
    ELSE LET v == Head(keys)
         IN  IF ~CacheHas(c, v) THEN CountExpired(Tail(keys), c, t, n + 1)
             ELSE IF CacheExpired(CacheGet(c, v), t)
                  THEN CountExpired(Tail(keys), CacheDel(c, v), t, n + 1)
                  ELSE CountExpired(Tail(keys), c, t, n)

\* A variant of get_cache_stats that counts the expired entries and leaves
\* them in the dict.
get_cache_stats_NoPurge(c, t) ==
    LET total == Len(c)
        expired == CountExpired([i \in 1..Len(c) |-> c[i].video_id], c, t, 0).expired
    IN  [cache_size |-> total, expired_count |-> expired, valid_count |-> total - expired,
         cache |-> c]

\* get_cache_stats on the dict c at instant t: the dict it returns, and the
\* dict it leaves.
get_cache_stats(c, t) ==
    LET total == Len(c)
        scan == CountExpired([i \in 1..Len(c) |-> c[i].video_id], c, t, 0)
    IN  [cache_size |-> total, expired_count |-> scan.expired,
         valid_count |-> total - scan.expired, cache |-> scan.cache]

\* A call of get_cache_stats.  Nothing in the program calls it while a
\* resolution runs (it has no caller outside the tests), so it runs between
\* the calls of the resolver.
GetCacheStats ==
    /\ Quiet
    /\ stats.pc = "idle"
    /\ \A c \in Callers : call[c].pc \in {"idle", "closed"}
    /\ LET r == get_cache_stats(cache, now)
       IN  /\ stats' = [pc |-> "done", cache_size |-> r.cache_size,
                        expired_count |-> r.expired_count, valid_count |-> r.valid_count,
                        before |-> cache]
           /\ cache' = r.cache
    /\ UNCHANGED <<now, store, snapshot, stream_resolver, cache_file, count, req, call,
                   capacity, batch, health, origin, loaded>>
    /\ HistoryStep

\* The caller has its dict of counts.
CloseStats ==
    /\ stats.pc = "done"
    /\ stats' = IdleStats
    /\ UNCHANGED <<now, store, cache, snapshot, stream_resolver, cache_file, count, req,
                   call, capacity, batch, health, origin, loaded>>
    /\ HistoryStep

----------------------------------------------------------------------------
\* ICYProxyServer._handle_health_check.

\* {"status": "ok", "service": "icy-proxy"}
HealthBody == [status |-> "ok", service |-> "icy-proxy"]

\* History: before (the counter, the store and the resolver's cache, file and
\* calls when the handler began).
IdleHealth ==
    [pc |-> "idle", status |-> 0, body |-> [status |-> None, service |-> None],
     before |-> <<>>]

\* A variant of the handler that is subject to the connection limit.
HandleHealthCheck_Limited ==
    /\ Quiet
    /\ health.pc = "idle"
    /\ health' = IF count >= MaxConcurrentStreams
                 THEN [pc |-> "done", status |-> 503,
                       body |-> [status |-> None, service |-> None],
                       before |-> <<count, store, cache, snapshot, call>>]
                 ELSE [pc |-> "done", status |-> 200, body |-> HealthBody,
                       before |-> <<count, store, cache, snapshot, call>>]
    /\ UNCHANGED <<now, store, cache, snapshot, stream_resolver, cache_file, count, req,
                   call, capacity, batch, origin, stats, loaded>>
    /\ HistoryStep

\* return web.json_response({"status": "ok", "service": "icy-proxy"}): the
\* handler has no await and touches no field of the server.
HandleHealthCheck ==
    /\ Quiet
    /\ health.pc = "idle"
    /\ health' = [pc |-> "done", status |-> 200, body |-> HealthBody,
                  before |-> <<count, store, cache, snapshot, call>>]
    /\ UNCHANGED <<now, store, cache, snapshot, stream_resolver, cache_file, count, req,
                   call, capacity, batch, origin, stats, loaded>>
    /\ HistoryStep

\* The response has left.
CloseHealth ==
    /\ health.pc = "done"
    /\ health' = IdleHealth
    /\ UNCHANGED <<now, store, cache, snapshot, stream_resolver, cache_file, count, req,
                   call, capacity, batch, origin, stats, loaded>>
    /\ HistoryStep

----------------------------------------------------------------------------
\* The playlist builder (SyncEngine) writes a row: track_store.add_track.
AddTrack(v, url, title, artist) ==
    /\ Quiet
    /\ store' = add_track(store, v, url, title, artist, now)
    /\ origin' = [x \in DOMAIN store' |->
                    IF x = v
                    THEN [at |-> now, by |-> "sync", url |-> url, written |-> now]
                    ELSE origin[x]]
    /\ UNCHANGED <<now, cache, snapshot, stream_resolver, cache_file, count, req, call,
                   capacity, batch, health, stats, loaded>>
    /\ HistoryStep

----------------------------------------------------------------------------
\* The cache files a resolver may find when it is constructed: none, or one
\* written just before.
InitialSnapshots ==
    {[written |-> FALSE, data |-> <<>>],
     [written |-> TRUE,
      data |-> <<[video_id |-> IdA, url |-> "A", cached_at |-> isoformat(0)]>>]}

\* A variant of _load_cache that keeps every item of the file.
load_cache_KeepAll(snap, t) ==
    [i \in 1..Len(snap.data) |->
        [video_id |-> snap.data[i].video_id, url |-> snap.data[i].url,
         cached_at |-> fromisoformat(snap.data[i].cached_at)]]

\* _load_cache: each item of the file, cached_at parsed, is put in the cache
\* unless it has expired.
load_cache(snap, t) ==
    LET Entry(x) == [video_id |-> x.video_id, url |-> x.url,
                     cached_at |-> fromisoformat(x.cached_at)]
        RECURSIVE Keep(_)
        Keep(d) == IF d = <<>> THEN <<>>
                   ELSE IF CacheExpired(Entry(Head(d)), t) THEN Keep(Tail(d))
                   ELSE <<Entry(Head(d))>> \o Keep(Tail(d))
    IN  Keep(snap.data)

\* StreamResolver.__init__ once more: the process starts again while no call
\* is running, and a new resolver is built over the cache file the old one
\* left.
Construct ==
    /\ Quiet
    /\ \A c \in Callers : call[c].pc \in {"idle", "closed"}
    /\ \E c \in Callers : call[c].pc = "closed"
    /\ cache' = IF cache_file THEN load_cache(snapshot, now) ELSE <<>>
    /\ call' = [c \in Callers |-> IdleCall]
    /\ UNCHANGED snapshot
    /\ ResolverFrame
    /\ HistoryStep

\* The state after construction: ICYProxyServer.__init__,
\* StreamResolver.__init__, and a store file that holds the rows of TrackIds,
\* resolved or not.
Init ==
    /\ now = 0
    /\ store \in [TrackIds ->
                    {[stream_url |-> u, updated_at |-> 0, title |-> "title", artist |-> "artist"] :
                        u \in {None, "A"}}]
    /\ stream_resolver \in BOOLEAN
    /\ cache_file \in (IF stream_resolver THEN BOOLEAN ELSE {FALSE})
    /\ snapshot \in (IF cache_file THEN InitialSnapshots ELSE {[written |-> FALSE, data |-> <<>>]})
    /\ cache = load_cache(snapshot, now)
    /\ count = 0
    /\ req = [r \in Requests |-> IdleRequest]
    /\ call = [c \in Callers |-> IdleCall]
    /\ hitValid = [c \in Callers |-> FALSE]
    /\ capacity = "none"
    /\ batch = IdleBatch
    /\ health = IdleHealth
    /\ origin = [v \in TrackIds |->
                    [at |-> 0, by |-> "sync", url |-> store[v].stream_url, written |-> 0]]
    /\ stats = IdleStats
    /\ loaded = IF cache_file THEN "ok" ELSE "none"

\* The proxy serving requests, its resolver on the executor's threads; the
\* store answers every call.
Next ==
    \/ \E r \in Requests, v \in RequestIds : HandleProxyRequest(r, v, FALSE)
    \/ \E r \in Requests : ResumeProxyRequest(r, FALSE)
    \/ \E r \in Requests : CloseRequest(r)
    \/ HandleHealthCheck
    \/ CloseHealth
    \/ ResolverStep
    \/ Tick

Spec == Init /\ [][Next]_vars

\* The same, with a store whose calls may raise (sqlite3.Error).
NextFaults ==
    \/ \E r \in Requests, v \in RequestIds, err \in BOOLEAN : HandleProxyRequest(r, v, err)
    \/ \E r \in Requests, err \in BOOLEAN : ResumeProxyRequest(r, err)
    \/ \E r \in Requests : CloseRequest(r)
    \/ HandleHealthCheck
    \/ CloseHealth
    \/ ResolverStep
    \/ Tick

SpecFaults == Init /\ [][NextFaults]_vars

\* The proxy under the scheduling the code can count on: the event loop runs
\* a handler that can go on, the executor's threads go on between calls of
\* the external primitive.  Nothing makes a request arrive, and nothing makes
\* extract_info return.
Fairness ==
    /\ \A r \in Requests : SF_vars(ResumeProxyRequest(r, FALSE))
    /\ \A r \in Requests : WF_vars(CloseRequest(r))
    /\ WF_vars(CloseHealth)
    /\ \A c \in Callers : SF_vars(IsCacheValidMember(c))
    /\ \A c \in Callers : SF_vars(IsCacheValidAge(c))
    /\ \A c \in Callers : SF_vars(IsCacheValidDel(c))
    /\ \A c \in Callers : SF_vars(CacheHit(c))
    /\ \A c \in Callers : SF_vars(CacheStore(c))
    /\ \A c \in Callers : SF_vars(SaveCache(c))

SpecLive == Init /\ [][Next]_vars /\ Fairness

\* The resolver called directly, by concurrent callers.
InitResolver == Init /\ stream_resolver

NextResolver ==
    \/ \E c \in DirectCallers, v \in ResolveIds : ResolveBegin(c, v)
    \/ \E c \in DirectCallers : ResolveEnd(c)
    \/ ResolverStep
    \/ Tick

SpecResolver == InitResolver /\ [][NextResolver]_vars

\* The resolver called directly, over restarts of the process.
NextLoad ==
    \/ NextResolver
    \/ Construct

SpecLoad == InitResolver /\ [][NextLoad]_vars

\* The resolver called directly, with its statistics read between the calls.
NextStats ==
    \/ NextResolver
    \/ GetCacheStats
    \/ CloseStats

SpecStats == InitResolver /\ [][NextStats]_vars

\* The resolver called through resolve_batch, once.
InitBatch == Init /\ stream_resolver /\ \A v \in TrackIds : store[v].stream_url = None

NextBatch ==
    \/ \E ids \in BatchInputs : BatchBegin(ids)
    \/ \E i \in BatchSlots : WorkerStart(i)
    \/ \E stop \in BOOLEAN : BatchPoll(stop)
    \/ BatchClose
    \/ BatchSave
    \/ BatchEnd
    \/ ResolverStep
    \/ Tick

SpecBatch == InitBatch /\ [][NextBatch]_vars

\* resolve_batch under the scheduling it runs on: the threads of the pool
\* take queued work and go on inside resolve_video_id, every run of the
\* external primitive comes to an end, and the calling thread goes on through
\* its loop (wait() returns within its timeout) and out of the with block.
\* Nothing makes should_stop() true.
BatchFairness ==
    /\ WF_vars(\E i \in BatchSlots : WorkerStart(i))
    /\ WF_vars(ResolverStep)
    /\ WF_vars(BatchPoll(FALSE))
    /\ WF_vars(BatchClose)
    /\ WF_vars(BatchSave)

SpecBatchLive == InitBatch /\ [][NextBatch]_vars /\ BatchFairness

\* StreamResolver.__init__ once more, after resolve_batch has returned: the
\* process starts again and a new resolver is built over the cache file.
\* ok: reading the file raises nothing; otherwise open or json.load raises,
\* the except clause of _load_cache logs it and the cache stays empty.
Restart(ok) ==
    /\ Quiet
    /\ batch.pc = "closed"
    /\ \A c \in Callers : call[c].pc = "idle"
    /\ ok \/ (cache_file /\ snapshot.written)
    /\ batch' = IdleBatch
    /\ cache' = IF cache_file /\ ok THEN load_cache(snapshot, now) ELSE <<>>
    /\ loaded' = IF ~cache_file THEN "none" ELSE IF ok THEN "ok" ELSE "error"
    /\ UNCHANGED <<now, store, snapshot, stream_resolver, cache_file, count, req, call,
                   capacity, health, origin, stats>>
    /\ HistoryStep

\* The places of _save_cache at which the file system may fail.
SaveFailures == {"mkdir", "open"}

\* resolve_batch on a file system that may fail, over restarts.
NextIO ==
    \/ NextBatch
    \/ \E c \in Callers, at \in SaveFailures : SaveCacheFails(c, at)
    \/ \E at \in SaveFailures : BatchSaveFails(at)
    \/ \E ok \in BOOLEAN : Restart(ok)

SpecIO == InitBatch /\ [][NextIO]_vars

\* The titles and artists the playlist builder writes.
Titles == {"title", "title2"}
Artists == {"artist", None}

\* The store under the playlist builder alone: rows are added and rewritten.
NextStore ==
    \/ \E v \in ResolveIds, url \in Urls \cup {None}, title \in Titles, artist \in Artists :
          AddTrack(v, url, title, artist)
    \/ Tick

SpecStore == Init /\ [][NextStore]_vars

\* A stored value that is not an http(s) URL.
Malformed == "not-a-url"

\* The proxy and the writers of its store: the playlist builder resets a
\* row to a null URL at each sync, and a row may be written with any text.
NextSync ==
    \/ Next
    \/ \E v \in TrackIds, url \in {None, Malformed} : AddTrack(v, url, "title", "artist")

SpecSync == Init /\ [][NextSync]_vars

----------------------------------------------------------------------------
\* The claims of the specification.

\* C1: in every reachable state, under any interleaving of concurrent
\* requests, 0 <= _active_connections <= max_concurrent_streams.
C1_CounterWithinLimit ==
    /\ 0 <= count
    /\ count <= MaxConcurrentStreams

\* The counter is at the limit and a request has just been turned away.
C1_Witness ==
    /\ count = MaxConcurrentStreams
    /\ \E r \in Requests : req[r].pc = "done" /\ req[r].status = 503

\* C2: every admitted request decrements the counter exactly once on every
\* path out of the handler (307, 404, 502, the redirect to the old URL, 500):
\* in every state the counter is the number of requests admitted and not yet
\* finished, and it is 0 when no request is in flight.
C2_CounterCountsInFlight ==
    /\ count = Cardinality({r \in Requests : req[r].pc = "await"})
    /\ (\A r \in Requests : req[r].pc # "await") => count = 0
    /\ \A r \in Requests :
          (req[r].pc = "done" /\ req[r].status \in {307, 404, 502, 500}) => req[r].looked

\* A request that was in flight has just ended in 500 (update_stream_url
\* raised after a resolution) and nothing is in flight.
C2_Witness ==
    /\ count = 0
    /\ \E r \in Requests :
          /\ req[r].pc = "done"
          /\ req[r].status = 500
          /\ req[r].branch \in {"null", "expired"}
          /\ call[r].ret \in Urls

\* C3: a well-formed request that reaches admission while the counter is at
\* the limit is answered 503, leaves the counter unchanged, and calls neither
\* the store nor the resolver; one that reaches admission while the counter is
\* below the limit is never answered 503.
C3_RejectedOnlyAtLimit ==
    [][\A r \in Requests :
          (req[r].pc = "idle" /\ req'[r].pc # "idle" /\ VideoIdMatches(req'[r].video_id))
          => IF count >= MaxConcurrentStreams
             THEN /\ req'[r].pc = "done"
                  /\ req'[r].status = 503
                  /\ count' = count
                  /\ ~req'[r].looked
                  /\ call' = call
                  /\ store' = store
             ELSE req'[r].status # 503]_vars

\* A well-formed request has just been answered 503 with the counter at the
\* limit.
C3_Witness ==
    \E r \in Requests :
        /\ req[r].pc = "done"
        /\ req[r].status = 503
        /\ VideoIdMatches(req[r].video_id)
        /\ ~req[r].looked
        /\ count = MaxConcurrentStreams

\* C4: after a request was answered 503 at the limit, once one of the
\* requests then in flight has ended (with any response) the counter is below
\* the limit, and the next well-formed request is admitted, not answered 503.
C4_AdmittedAfterRelease ==
    /\ capacity = "freed" => ~ConnectionLimitReached(count)
    /\ \A r \in Requests :
          req[r].after_free =>
              /\ req[r].status # 503
              /\ req[r].looked
              /\ req[r].pc = "await" => count >= 1

\* The first well-formed request after a 503 and the end of a request in
\* flight has been admitted and is in flight itself.
C4_Witness ==
    \E r \in Requests : req[r].after_free /\ req[r].pc = "await"

\* C5: while a valid cache entry exists for an identifier, a call of
\* resolve_video_id for it returns the cached URL and runs neither
\* _extract_url nor extract_info.
C5_ValidEntryServedFromCache ==
    \A c \in Callers :
        hitValid[c] =>
            /\ call[c].pc \in {"check", "valid_read", "hit_read", "done"}
            /\ call[c].extracts = 0
            /\ call[c].attempts = 0
            /\ call[c].pc = "done" =>
                  /\ call[c].ret \in Urls
                  /\ call[c].ret = CacheGet(cache, call[c].video_id).url

\* A call has returned the URL of an entry that was valid all along and that
\* was cached before the present instant.
C5_Witness ==
    \E c \in DirectCallers :
        /\ call[c].pc = "done"
        /\ hitValid[c]
        /\ call[c].ret \in Urls
        /\ CacheGet(cache, call[c].video_id).cached_at < now

\* C6: the call of resolve_video_id that meets an entry older than the TTL and
\* removes it runs _extract_url exactly once; when that yields a URL, the
\* assignment leaves the cache with exactly one entry for the identifier, with
\* the new URL and cached_at the present instant.
C6_ExpiredEntryResolvedAfresh ==
    /\ [](\A c \in Callers :
            call[c].found = "expired" =>
                /\ call[c].pc = "extract" => call[c].extracts = 0
                /\ call[c].pc \in {"store", "save"} =>
                      call[c].extracts = 1 /\ call[c].url \in Urls
                /\ (call[c].pc = "done" /\ call[c].ret # "KeyError") => call[c].extracts = 1)
    /\ [][\A c \in Callers :
            (call[c].found = "expired" /\ call[c].pc = "store" /\ call'[c].pc # "store")
            => LET v == call[c].video_id
               IN  /\ Cardinality({i \in 1..Len(cache') : cache'[i].video_id = v}) = 1
                   /\ CacheGet(cache', v).url = call[c].url
                   /\ CacheGet(cache', v).cached_at = now]_vars

\* A call that met the expired entry "A" has returned "B" after one run of
\* _extract_url, and the cache holds "B" with cached_at the present instant.
C6_Witness ==
    \E c \in DirectCallers :
        /\ call[c].pc = "done"
        /\ call[c].found = "expired"
        /\ call[c].extracts = 1
        /\ call[c].ret = "B"
        /\ CacheHas(cache, call[c].video_id)
        /\ CacheGet(cache, call[c].video_id) =
              [video_id |-> call[c].video_id, url |-> "B", cached_at |-> now]

\* C7: a call of resolve_video_id whose extraction fails (the video is
\* unavailable, the network fails again on the one retry, or anything else)
\* returns no URL and its return leaves the cache as it was, with no entry for
\* the identifier when no other call is running; a call that finds no valid
\* entry never returns a URL without running _extract_url.
C7_FailureLeavesNoEntry ==
    /\ [](\A c \in Callers :
            /\ (call[c].pc = "done" /\ call[c].ret = None) =>
                  /\ call[c].url = None
                  /\ call[c].extracts = 1
                  /\ call[c].fail \in FailureKinds
                  /\ call[c].attempts = (IF call[c].fail = "network" THEN 2 ELSE 1)
                  /\ (\A d \in Callers \ {c} : call[d].pc = "idle") =>
                        ~CacheHas(cache, call[c].video_id)
            /\ (call[c].pc = "done" /\ call[c].found \in {"absent", "expired"}
                  /\ call[c].ret \in Urls) => call[c].extracts = 1)
    /\ [][\A c \in Callers :
            (call[c].pc = "extract" /\ call'[c].pc = "done") =>
                (call'[c].ret = None /\ cache' = cache)]_vars

\* A call that met an expired entry has failed on the retry after a network
\* error and has returned no URL; the cache holds nothing for the identifier.
C7_Witness ==
    \E c \in DirectCallers :
        /\ call[c].pc = "done"
        /\ call[c].ret = None
        /\ call[c].found = "expired"
        /\ call[c].fail = "network"
        /\ call[c].attempts = 2
        /\ ~CacheHas(cache, call[c].video_id)

C10_RefreshWritesThenRedirects ==
    \A r \in Requests :
        (req[r].pc = "done" /\ req[r].branch \in {"null", "expired"}
            /\ call[r].ret \in Urls)
        => /\ req[r].status = 307
           /\ req[r].location = call[r].ret
           /\ store[req[r].video_id].stream_url = call[r].ret
           /\ store[req[r].video_id].updated_at = now

\* An expired "A" has been replaced by "B" after the first instant and the
\* request redirected to "B".
C10_Witness ==
    \E r \in Requests :
        /\ req[r].pc = "done"
        /\ req[r].branch = "expired"
        /\ req[r].track_url = "A"
        /\ call[r].ret = "B"
        /\ req[r].status = 307
        /\ req[r].location = "B"
        /\ store[req[r].video_id] =
              [stream_url |-> "B", updated_at |-> now, title |-> "title", artist |-> "artist"]

C12_MalformedRejected ==
    \A r \in Requests :
        (/\ req[r].pc # "idle"
         /\ ~(/\ Len(req[r].video_id) = VideoIdLength
              /\ \A i \in 1..Len(req[r].video_id) : req[r].video_id[i] \in IdChars))
        => /\ req[r].pc = "done"
           /\ req[r].status = 400
           /\ count = req[r].count0
           /\ ~req[r].looked
           /\ call[r].pc = "idle"
           /\ store = req[r].store0

\* C13: a well-formed, admitted request for an identifier without a row is
\* answered 404, makes no resolver call, leaves the store as it was and gives
\* its slot back.
C13_UnknownIdNotFound ==
    \A r \in Requests :
        (req[r].looked /\ req[r].video_id \notin DOMAIN store)
        => /\ req[r].pc = "done"
           /\ req[r].status = 404
           /\ call[r].pc = "idle"
           /\ store = req[r].store0
           /\ count = req[r].count0
           /\ count = Cardinality({p \in Requests : req[p].pc = "await"})

\* With a resolver at hand, a request for an identifier without a row has
\* been answered 404 and the counter is what it was before the request.
C13_Witness ==
    \E r \in Requests :
        /\ req[r].pc = "done"
        /\ req[r].video_id = IdB
        /\ req[r].looked
        /\ req[r].status = 404
        /\ stream_resolver
        /\ count = req[r].count0

\* C14 as stated: for any list run to completion without cancellation, of
\* which k identifiers fail, resolve_batch returns exactly len(ids) - k
\* entries, each a resolved identifier with its own URL, and no failing
\* identifier is a key.
C14_EntriesLenMinusFailures ==
    (batch.pc = "done" /\ ~batch.cancelled) =>
        LET failed == {i \in DOMAIN batch.fut : batch.fut[i].st \in {"failed", "raised"}}
        IN  /\ Cardinality(DOMAIN batch.results) = Len(batch.video_ids) - Cardinality(failed)
            /\ \A v \in DOMAIN batch.results :
                  \E i \in DOMAIN batch.fut :
                      /\ batch.video_ids[i] = v
                      /\ batch.fut[i].st = "ok"
                      /\ batch.results[v] = batch.fut[i].ret
            /\ \A i \in failed : batch.video_ids[i] \notin DOMAIN batch.results

\* C14, amended: for any list run to completion without cancellation,
\* resolve_batch returns one entry for each distinct identifier that one of
\* its workers resolved, with a URL such a worker returned; when the
\* identifiers of the list are pairwise distinct and k of them fail, these are
\* exactly len(ids) - k entries and no failing identifier is a key.
C14_OneEntryPerResolvedId ==
    (batch.pc = "done" /\ ~batch.cancelled) =>
        LET failed == {i \in DOMAIN batch.fut : batch.fut[i].st \in {"failed", "raised"}}
            ok == {i \in DOMAIN batch.fut : batch.fut[i].st = "ok"}
        IN  /\ ok \cup failed = DOMAIN batch.fut
            /\ DOMAIN batch.results = {batch.video_ids[i] : i \in ok}
            /\ \A v \in DOMAIN batch.results :
                  \E i \in ok : batch.video_ids[i] = v /\ batch.results[v] = batch.fut[i].ret
            /\ (\A i, j \in DOMAIN batch.fut : i # j => batch.video_ids[i] # batch.video_ids[j])
                  => /\ Cardinality(DOMAIN batch.results)
                           = Len(batch.video_ids) - Cardinality(failed)
                     /\ \A i \in failed : batch.video_ids[i] \notin DOMAIN batch.results

\* Of two distinct identifiers one has failed and the other is the only key
\* of the result.
C14_Witness ==
    /\ batch.pc = "done"
    /\ ~batch.cancelled
    /\ batch.video_ids = <<IdA, IdB>>
    /\ batch.fut[1].st = "ok"
    /\ batch.fut[2].st = "failed"
    /\ DOMAIN batch.results = {IdA}
    /\ batch.results[IdA] = batch.fut[1].ret

C16_ReturnsWithoutWaiting ==
    (batch.cancelled /\ batch.pc = "closing") =>
        /\ \A i \in DOMAIN batch.fut : batch.fut[i].st # "pending"
        /\ Resolving(batch) = {}

\* C17: during a resolve_batch call the number of workers inside
\* resolve_video_id never exceeds min(max workers, len(ids)).
C17_WorkersBounded ==
    /\ Cardinality(Resolving(batch)) <= MaxWorkers
    /\ Cardinality(Resolving(batch)) <= Len(batch.video_ids)

\* As many workers as the cap allows are inside resolve_video_id and a
\* further identifier of the list is queued.
C17_Witness ==
    /\ batch.pc = "poll"
    /\ Cardinality(Resolving(batch)) = MaxWorkers
    /\ Len(batch.video_ids) > MaxWorkers
    /\ \E i \in DOMAIN batch.fut : batch.fut[i].st = "pending"

\* C18: resolve_batch on the empty list returns the empty dict, starts no
\* worker, makes no external call and changes neither the cache nor the cache
\* file.
C18_EmptyBatch ==
    [][(batch.pc = "idle" /\ batch'.pc # "idle" /\ batch'.video_ids = <<>>)
       => /\ batch'.pc = "done"
          /\ DOMAIN batch'.results = {}
          /\ DOMAIN batch'.fut = {}
          /\ call' = call
          /\ \A c \in Callers : call'[c].pc = "idle"
          /\ cache' = cache
          /\ snapshot' = snapshot]_vars

\* resolve_batch([]) has returned the empty dict on a resolver whose cache
\* holds an entry.
C18_Witness ==
    /\ batch.pc = "done"
    /\ batch.video_ids = <<>>
    /\ DOMAIN batch.results = {}
    /\ cache # <<>>
    /\ \A c \in Callers : call[c].pc = "idle"

\* C19: in a call of resolve_video_id that misses the cache, a first run of
\* extract_info that fails with a network or timeout error is followed by
\* exactly one more run, whose outcome is the outcome of the call; a first run
\* that fails in any other way is followed by none; no call makes more than
\* two runs.
C19_OneRetryForNetworkErrors ==
    /\ \A o1, o2 \in ExtractOutcomes :
          LET x == extract_url(o1, o2)
          IN  /\ x.attempts <= 2
              /\ o1.kind = "url" => (x.attempts = 1 /\ x.url = o1.url)
              /\ o1.kind = "network" => (x.attempts = 2 /\ x.url = o2.url)
              /\ o1.kind \in FailureKinds \ {"network"} => (x.attempts = 1 /\ x.url = None)
    /\ \A c \in Callers :
          /\ call[c].extracts <= 1
          /\ call[c].attempts <= 2
          /\ call[c].extracts = 0 => call[c].attempts = 0
          /\ call[c].extracts = 1 =>
                /\ call[c].fail = None => (call[c].attempts = 1 /\ call[c].url \in Urls)
                /\ call[c].fail = "network" => call[c].attempts = 2
                /\ call[c].fail \in FailureKinds \ {"network"} =>
                      (call[c].attempts = 1 /\ call[c].url = None)
          /\ (call[c].pc = "done" /\ call[c].extracts = 1) => call[c].ret = call[c].url

\* A call whose first run failed with a network error has returned the URL of
\* its second run.
C19_Witness ==
    \E c \in DirectCallers :
        /\ call[c].pc = "done"
        /\ call[c].fail = "network"
        /\ call[c].attempts = 2
        /\ call[c].ret \in Urls

\* C20: an admitted request whose resolution does not return is ended by a
\* request-level timeout (a 504) and gives its slot back: no admitted request
\* stays in flight forever because the external resolution never returns.
C20_AdmittedRequestEnds ==
    \A r \in Requests : (req[r].pc = "await") ~> (req[r].pc = "done")

\* C21: resolve_video_id calls on one identifier through one resolver are
\* linearizable: whatever the interleaving of their steps, each call returns
\* what a call returns in some one-at-a-time ordering of them.  A call that
\* runs alone returns a URL or None and never raises, so no call ends by
\* raising, and a call that returns a URL it did not extract returns the URL
\* of an entry it found valid.
C21_ResolveCallsLinearizable ==
    \A c \in Callers :
        call[c].pc = "done" =>
            /\ call[c].ret \in Urls \cup {None}
            /\ (call[c].ret \in Urls /\ call[c].extracts = 0) => call[c].found = "valid"


C23_HealthAlwaysOk ==
    /\ (health.pc = "idle" /\ \A p \in Requests : req[p].pc # "done")
          => ENABLED HandleHealthCheck
    /\ health.pc = "done" =>
          /\ health.status = 200
          /\ health.body = [status |-> "ok", service |-> "icy-proxy"]
          /\ health.before = <<count, store, cache, snapshot, call>>

\* /health has been answered 200 while the counter is at the limit.
C23_Witness ==
    /\ health.pc = "done"
    /\ health.status = 200
    /\ health.body = HealthBody
    /\ count = MaxConcurrentStreams
    /\ \E r \in Requests : req[r].pc = "await"


\* C24: over any sequence of proxy requests the identifiers of the store and
\* the title and artist of every row stay as they are; a step changes the
\* store only by setting stream_url and updated_at of the row of a request
\* whose resolution has returned a URL; update_stream_url for an identifier
\* without a row changes nothing and makes no row.
C24_StoreFrame ==
    /\ [](\A v \in RequestIds \ DOMAIN store, u \in Urls :
             update_stream_url(store, v, u, now) = store)
    /\ [][/\ DOMAIN store' = DOMAIN store
          /\ \A v \in DOMAIN store :
                /\ store'[v].title = store[v].title
                /\ store'[v].artist = store[v].artist
          /\ store' # store =>
                \E r \in Requests :
                    /\ req[r].pc = "await"
                    /\ call[r].pc = "done"
                    /\ call[r].ret \in Urls
                    /\ req'[r].pc = "done"
                    /\ req[r].video_id \in DOMAIN store
                    /\ store' = [store EXCEPT ![req[r].video_id].stream_url = call[r].ret,
                                              ![req[r].video_id].updated_at = now]]_vars

\* A request has replaced the URL and the time of its row, after the first
\* instant; the row's title and artist and the rows of the store are the same.
C24_Witness ==
    \E r \in Requests :
        /\ req[r].pc = "done"
        /\ req[r].store0 # store
        /\ DOMAIN req[r].store0 = DOMAIN store
        /\ store[req[r].video_id].updated_at = now
        /\ now > 0
        /\ store[req[r].video_id].stream_url # req[r].store0[req[r].video_id].stream_url
        /\ store[req[r].video_id].title = req[r].store0[req[r].video_id].title
        /\ store[req[r].video_id].artist = req[r].store0[req[r].video_id].artist


\* C25 as stated: a call of resolve_video_id treats the entry it reads as
\* valid exactly when now - cached_at < cache_hours; an entry whose age is
\* cache_hours exactly is not valid, and the call runs _extract_url for it.
C25_ValidBelowTtl ==
    \A c \in Callers :
        call[c].found \in {"valid", "expired"} =>
            /\ call[c].found = "valid" <=> call[c].age < cache_hours
            /\ (call[c].age = cache_hours /\ call[c].pc = "done" /\ call[c].ret # "KeyError")
                  => call[c].extracts = 1

\* C25, amended: a call of resolve_video_id treats the entry it reads as valid
\* exactly when now - cached_at <= cache_hours: an entry whose age is
\* cache_hours exactly is still valid and is returned without a run of
\* _extract_url; an entry older than cache_hours is not valid, and the call
\* runs _extract_url for it.
C25_ValidUpToTtl ==
    \A c \in Callers :
        call[c].found \in {"valid", "expired"} =>
            /\ call[c].found = "valid" <=> call[c].age <= cache_hours
            /\ (call[c].found = "valid" /\ call[c].pc = "done" /\ call[c].ret # "KeyError")
                  => (call[c].extracts = 0 /\ call[c].ret \in Urls)
            /\ (call[c].found = "expired" /\ call[c].pc = "done" /\ call[c].ret # "KeyError")
                  => call[c].extracts = 1

\* A call has returned the URL of an entry whose age was cache_hours exactly,
\* without a run of _extract_url.
C25_Witness ==
    \E c \in DirectCallers :
        /\ call[c].pc = "done"
        /\ call[c].found = "valid"
        /\ call[c].age = cache_hours
        /\ call[c].extracts = 0
        /\ call[c].ret \in Urls


\* C26: an identifier that is not 11 characters of [A-Za-z0-9_-] is never
\* written to the log, never used for a store lookup and never passed to
\* resolve_video_id: the shape is checked before any such use.
C26_ShapeCheckedBeforeUse ==
    /\ \A r \in Requests :
          (req[r].logged \/ req[r].looked) =>
              /\ Len(req[r].video_id) = VideoIdLength
              /\ \A i \in 1..Len(req[r].video_id) : req[r].video_id[i] \in IdChars
    /\ \A c \in Callers :
          call[c].pc \notin {"idle", "closed"} =>
              /\ Len(call[c].video_id) = VideoIdLength
              /\ \A i \in 1..Len(call[c].video_id) : call[c].video_id[i] \in IdChars


\* C28: a resolver constructed over a cache file starts with a cache that
\* holds exactly the items of the file that have not expired at that instant,
\* each with the url and the cached_at of the file; items that have expired
\* are left out, and construction runs no extraction.
C28_LoadKeepsUnexpired ==
    [][(\E c \in Callers : call[c].pc = "closed" /\ call'[c].pc = "idle")
       => /\ snapshot' = snapshot
          /\ \A i \in 1..Len(snapshot.data) :
                LET x == snapshot.data[i]
                IN  (cache_file /\ now - x.cached_at.iso <= cache_hours)
                    <=> \E j \in 1..Len(cache') :
                           cache'[j] = [video_id |-> x.video_id, url |-> x.url,
                                        cached_at |-> x.cached_at.iso]
          /\ \A j \in 1..Len(cache') :
                /\ \E i \in 1..Len(snapshot.data) :
                      snapshot.data[i].video_id = cache'[j].video_id
                /\ \A k \in 1..Len(cache') :
                      cache'[k].video_id = cache'[j].video_id => k = j
          /\ \A c \in Callers :
                call'[c].pc = "idle" /\ call'[c].extracts = 0 /\ call'[c].attempts = 0]_vars

\* A resolver has just been constructed over a file of two items, ten hours
\* after the first was cached: its cache holds the second only.
C28_Witness ==
    /\ \A c \in Callers : call[c].pc = "idle"
    /\ cache_file
    /\ Len(snapshot.data) = 2
    /\ snapshot.data[1].cached_at = isoformat(0)
    /\ now = 2 * cache_hours
    /\ Len(cache) = 1
    /\ cache[1].video_id = snapshot.data[2].video_id
    /\ cache[1].url = snapshot.data[2].url
    /\ cache[1].cached_at = cache_hours


\* C27: on a resolver with a cache file, when a call of resolve_video_id
\* returns the URL it has extracted, the file holds exactly the entries of the
\* cache that are valid at that instant, the new one (still valid) among them
\* and no expired one, also when the cache held expired entries of other
\* identifiers when the write began.
C27_SnapshotAfterResolve ==
    \A c \in Callers :
        (/\ cache_file
         /\ call[c].pc = "done"
         /\ call[c].extracts = 1
         /\ call[c].ret \in Urls
         /\ CacheValid(cache, now, call[c].video_id))
        => /\ snapshot.written
           /\ snapshot.data = SnapshotOf(SelectSeq(cache, LAMBDA e : ~CacheExpired(e, now)))
           /\ \E i \in 1..Len(snapshot.data) :
                 /\ snapshot.data[i].video_id = call[c].video_id
                 /\ snapshot.data[i].url = call[c].ret


\* C29: an error raised by the store after admission, by get_track or by
\* update_stream_url after a resolution that returned a URL, ends the request
\* with a 500 and no redirect, and the request's slot is given back: the
\* counter is what it was before the request, and counts the requests still in
\* flight.
C29_UnexpectedErrorIs500 ==
    \A r \in Requests :
        req[r].raised =>
            /\ req[r].pc = "done"
            /\ req[r].status = 500
            /\ req[r].location = None
            /\ req[r].looked
            /\ count = Cardinality({p \in Requests : req[p].pc = "await"})
            /\ count = (IF call[r].pc = "done" THEN req[r].count0 - 1 ELSE req[r].count0)
            /\ store = req[r].store0

\* update_stream_url has raised after the resolver returned a URL for an
\* expired row: the answer is 500, the row is as it was and no request is in
\* flight.
C29_Witness ==
    \E r \in Requests :
        /\ req[r].raised
        /\ req[r].branch = "expired"
        /\ call[r].pc = "done"
        /\ call[r].ret \in Urls
        /\ req[r].status = 500
        /\ store[req[r].video_id].stream_url = req[r].track_url
        /\ count = 0


C31_AddTrackNoneKeepsUrl ==
    \A v \in DOMAIN store, title \in Titles, artist \in Artists :
        store[v].stream_url # None =>
            LET row == add_track(store, v, None, title, artist, now)[v]
            IN  /\ row.title = title
                /\ row.artist = artist
                /\ row.stream_url = store[v].stream_url
                /\ row.updated_at = store[v].updated_at


\* C32: a request that finds a fresh row whose stream URL is not an http(s)
\* URL is answered 502 and is not redirected to the stored value.
C32_MalformedUrlIs502 ==
    \A r \in Requests :
        (req[r].pc = "done" /\ req[r].branch = "fresh" /\ req[r].track_url = Malformed)
        => /\ req[r].status = 502
           /\ req[r].location # Malformed


\* C33: get_cache_stats returns cache_size, the number of entries the cache
\* held when it was called, expired_count, the number of those that are
\* expired, and valid_count = cache_size - expired_count; when it returns the
\* cache holds exactly the valid_count entries that were not expired.
C33_StatsCountAndPurge ==
    stats.pc = "done" =>
        LET expired == {i \in 1..Len(stats.before) : (now - stats.before[i].cached_at) > cache_hours}
        IN  /\ stats.cache_size = Len(stats.before)
            /\ stats.expired_count = Cardinality(expired)
            /\ stats.valid_count = stats.cache_size - stats.expired_count
            /\ Len(cache) = stats.valid_count
            /\ cache = SelectSeq(stats.before, LAMBDA e : (now - e.cached_at) <= cache_hours)

\* get_cache_stats has returned over a cache that held an expired entry and
\* a valid one.
C33_Witness ==
    /\ stats.pc = "done"
    /\ stats.cache_size = 2
    /\ stats.expired_count = 1
    /\ stats.valid_count = 1
    /\ Len(cache) = 1


\* C34: at no instant are two calls of resolve_video_id on one resolver both
\* inside the external resolution (_extract_url) of the same video_id.
C34_OneExtractionPerId ==
    \A c, d \in Callers :
        (c # d /\ call[c].pc = "extract" /\ call[d].pc = "extract")
        => call[c].video_id # call[d].video_id


\* C35: whenever a request is answered through the fresh branch, the URL of
\* the row was returned by the external primitive no longer ago than the TTL
\* (the TTL itself is allowed here, as in the comparisons of the code).
C35_FreshUrlWithinTtlOfResolution ==
    \A r \in Requests :
        (req[r].pc = "done" /\ req[r].branch = "fresh" /\ req[r].track_url \in Urls)
        => now - origin[req[r].video_id].at <= URL_EXPIRY_HOURS


\* C36: once a request has ended by storing the URL of a successful
\* resolution, a request for the same video_id that is admitted no later than
\* the TTL after that write, the row not having been written by anyone else
\* since, is answered through the fresh branch: 307 to that URL, no resolver
\* call, no store write.
C36_FreshAfterResolution ==
    [][\A r \in Requests :
          (/\ req[r].pc = "idle"
           /\ req'[r].looked
           /\ req'[r].video_id \in DOMAIN store
           /\ origin[req'[r].video_id].by = "proxy"
           /\ now - origin[req'[r].video_id].written <= URL_EXPIRY_HOURS)
          => /\ req'[r].pc = "done"
             /\ req'[r].branch = "fresh"
             /\ req'[r].status = 307
             /\ req'[r].location = origin[req'[r].video_id].url
             /\ call'[r] = IdleCall
             /\ store' = store]_vars

\* A request has been answered through the fresh branch with the URL that an
\* earlier request's resolution stored an expiry period before.
C36_Witness ==
    \E r \in Requests :
        /\ req[r].pc = "done"
        /\ req[r].branch = "fresh"
        /\ req[r].status = 307
        /\ origin[req[r].video_id].by = "proxy"
        /\ req[r].location = origin[req[r].video_id].url
        /\ now - origin[req[r].video_id].written = URL_EXPIRY_HOURS
        /\ call[r].pc = "idle"


\* C37: once a poll of resolve_batch has found should_stop() true, no further
\* result is collected: the dict holds exactly the identifiers of the futures
\* collected as successes, each with the URL of such a future; a worker that
\* was running is not collected, whatever it stores in the cache; a future
\* that had not started is cancelled and its call of resolve_video_id never
\* begins.
C37_CancelledBatchResult ==
    batch.cancelled =>
        LET ok == {i \in DOMAIN batch.fut : batch.fut[i].st = "ok"}
        IN  /\ batch.pc \in {"closing", "save", "done"}
            /\ DOMAIN batch.results = {batch.video_ids[i] : i \in ok}
            /\ \A v \in DOMAIN batch.results :
                  \E i \in ok : batch.video_ids[i] = v /\ batch.results[v] = batch.fut[i].ret
            /\ \A i \in DOMAIN batch.fut :
                  /\ batch.fut[i].st # "pending"
                  /\ batch.fut[i].st = "cancelled" => call[i] = IdleCall

\* A cancelled resolve_batch has returned: the worker that was running when
\* should_stop() was found true has stored its URL in the cache and its
\* identifier is not in the dict; the other future was cancelled.
C37_Witness ==
    /\ batch.pc = "done"
    /\ batch.cancelled
    /\ \E i, j \in DOMAIN batch.fut :
          /\ batch.fut[i].st = "dropped"
          /\ batch.fut[i].ret \in Urls
          /\ CacheHas(cache, batch.video_ids[i])
          /\ CacheGet(cache, batch.video_ids[i]).url = batch.fut[i].ret
          /\ batch.video_ids[i] \notin DOMAIN batch.results
          /\ batch.fut[j].st = "cancelled"
          /\ ~CacheHas(cache, batch.video_ids[j])


\* C38: a call of resolve_batch on a non-empty list returns, whether
\* should_stop() stays false or turns true at some poll, provided every run of
\* the external primitive ends; and the result of a future, once taken, is
\* not taken again.
C38_BatchTerminates ==
    /\ (batch.pc = "poll") ~> (batch.pc = "done")
    /\ [][\A i \in DOMAIN batch.fut :
             (batch.fut[i].st \in {"ok", "failed", "raised"} /\ batch'.pc \notin {"idle", "closed"})
             => /\ i \in DOMAIN batch'.fut
                /\ batch'.fut[i] = batch.fut[i]
                /\ call'[i].pc = "idle"]_vars

\* resolve_batch has returned, not cancelled, from a list of two identifiers
\* after taking the result of each future, a URL and a failure.
C38_Witness ==
    /\ batch.pc = "done"
    /\ ~batch.cancelled
    /\ Len(batch.video_ids) = MaxBatchLen
    /\ \E i, j \in DOMAIN batch.fut :
          /\ batch.fut[i].st = "ok"
          /\ batch.fut[j].st = "failed"
    /\ \A c \in Callers : call[c].pc = "idle"


====
